---- MODULE Spec2Model ----
(***************************************************************************)
(* Model of the ModuleRegistry (src/CONTRIBUTING.md:247-521): registration *)
(* of modules, depth-first dependency resolution with cycle detection, and *)
(* the per-module life-cycle driven by initialize/start/stop and their     *)
(* batch forms.  Every asynchronous call is a task; one action is the part *)
(* of a call that runs between two awaits.                                 *)
(***************************************************************************)
EXTENDS Integers, Sequences, FiniteSets, TLC

\* ------------------------------------------------------------------ bounds
Names == {"a", "b", "c"}     \* the names a dependency list may hold
Callers == {"a", "b"}        \* the names the life-cycle specs register and call
ConcCallers == {"a"}         \* the names the interleaved spec registers and calls
MaxDeps == 1                 \* length of a dependency list in the life-cycle specs
ResDeps == 2                 \* length of a dependency list in the resolution spec
MaxTasks == 2                \* calls in flight at the same time
MaxCalls == 2                \* the invocation counter saturates here
CbErrors == {"E1", "E2"}     \* errors a module callback may throw
Versions == {"1.0.0", "2.0.0"}   \* the version strings a module may carry
OneVersion == {"1.0.0"}      \* the version string of the life-cycle specs

\* ------------------------------------------------------------- ModuleState
UNINITIALIZED == "uninitialized"
INITIALIZING == "initializing"
INITIALIZED == "initialized"
STARTING == "starting"
RUNNING == "running"
STOPPING == "stopping"
STOPPED == "stopped"
ERROR == "error"
ABSENT == "undefined"        \* modules.get(name) of an unregistered name

ModuleState ==
  {UNINITIALIZED, INITIALIZING, INITIALIZED, STARTING, RUNNING, STOPPING, STOPPED, ERROR}

VARIABLES
  modules,        \* keys of the Map `modules`, in insertion order
  version,        \* name -> module.version of the registered module
  dependencies,   \* name -> module.dependencies of the registered module
  state,          \* name -> entry.state, ABSENT when there is no entry
  error,          \* name -> entry.error
  startOrder,     \* the cached order
  tasks,          \* the calls in flight, oldest first
  returned,       \* the call that returned last, and its result
  initCalls,      \* history: number of invocations of module.init
  wasInitialized  \* history: the entry has been in state INITIALIZED

vars ==
  <<modules, version, dependencies, state, error, startOrder, tasks, returned, initCalls,
    wasInitialized>>

\* ------------------------------------------------------------------ values
Err(type, names) == [type |-> type, names |-> names]
OK == Err("ok", <<>>)
NONE == Err("none", <<>>)
AWAIT == Err("await", <<>>)

Range(s) == {s[i] : i \in 1..Len(s)}
SeqsUpTo(S, n) == UNION {[1..k -> S] : k \in 0..n}
Reverse(s) == [i \in 1..Len(s) |-> s[Len(s) + 1 - i]]
Min(x, y) == IF x < y THEN x ELSE y

Has(mods, name) == name \in Range(mods)

\* A call in flight: op and name as called; for a batch call the array it
\* iterates and the index it is at; pc "await" while the module's callback is
\* pending, "yield" while the settled call on order[idx] is awaited, with ret
\* what that call returned or threw.  pre records the registry the call was
\* made on: for initializeAll, every entry was UNINITIALIZED; for startAll,
\* every entry of the cached order was INITIALIZED; for stopAll, every entry
\* of the cached order was RUNNING; for stop, the entry was INITIALIZED.
Task(op, name, order, idx, pc, ret, pre) ==
  [op |-> op, name |-> name, order |-> order, idx |-> idx, pc |-> pc,
   ret |-> ret, pre |-> pre]

\* What the caller of a finished call observes: ret, the result or the error
\* thrown; name, the module the call was on (for a batch call that threw, the
\* module whose step threw).
Returned(op, name, ret) == [op |-> op, name |-> name, ret |-> ret]

\* no call has returned since the last call was made or resumed
NoReturn == Returned("none", "", NONE)

RemoveAt(s, t) == [i \in 1..(Len(s) - 1) |-> IF i < t THEN s[i] ELSE s[i + 1]]

Quiescent == tasks = <<>>
HasFreeSlot == Len(tasks) < MaxTasks

\* ---------------------------------------------------------------- register
\* register without the check for an existing entry: `modules.set` replaces
\* the entry of a name that is registered
RegisterOverwrite(name, ver, deps) ==
  /\ modules' = IF Has(modules, name) THEN modules ELSE Append(modules, name)
  /\ version' = [version EXCEPT ![name] = ver]
  /\ dependencies' = [dependencies EXCEPT ![name] = deps]
  /\ state' = [state EXCEPT ![name] = UNINITIALIZED]
  /\ error' = [error EXCEPT ![name] = NONE]
  /\ returned' = Returned("register", name, OK)
  /\ UNCHANGED <<startOrder, tasks, initCalls, wasInitialized>>

\* register that also drops the cached order
RegisterInvalidate(name, ver, deps) ==
  /\ IF Has(modules, name)
       THEN /\ returned' = Returned("register", name, Err("AlreadyRegistered", <<name>>))
            /\ UNCHANGED <<modules, version, dependencies, state, error>>
       ELSE /\ modules' = Append(modules, name)
            /\ version' = [version EXCEPT ![name] = ver]
            /\ dependencies' = [dependencies EXCEPT ![name] = deps]
            /\ state' = [state EXCEPT ![name] = UNINITIALIZED]
            /\ error' = [error EXCEPT ![name] = NONE]
            /\ returned' = Returned("register", name, OK)
  /\ startOrder' = <<>>
  /\ UNCHANGED <<tasks, initCalls, wasInitialized>>

Register(name, ver, deps) ==
  /\ IF Has(modules, name)
       THEN /\ returned' = Returned("register", name, Err("AlreadyRegistered", <<name>>))
            /\ UNCHANGED <<modules, version, dependencies, state, error>>
       ELSE /\ modules' = Append(modules, name)
            /\ version' = [version EXCEPT ![name] = ver]
            /\ dependencies' = [dependencies EXCEPT ![name] = deps]
            /\ state' = [state EXCEPT ![name] = UNINITIALIZED]
            /\ error' = [error EXCEPT ![name] = NONE]
            /\ returned' = Returned("register", name, OK)
  /\ UNCHANGED <<startOrder, tasks, initCalls, wasInitialized>>

\* ------------------------------------------------ resolveDependencyOrder
\* The traversal state: the sets `visited` and `visiting`, the array `order`
\* and the error thrown, if any (a thrown error ends the whole traversal).
RECURSIVE visit(_, _, _, _)
RECURSIVE visitDeps(_, _, _, _, _)

\* visit without `visited.add(name)`
visitNoMark(mods, deps, name, s) ==
  IF s.err # NONE THEN s
  ELSE IF name \in s.visited THEN s
  ELSE IF name \in s.visiting
    THEN [s EXCEPT !.err = Err("CircularDependency", <<name>>)]
  ELSE IF ~Has(mods, name) THEN s
  ELSE LET s1 == [s EXCEPT !.visiting = @ \cup {name}]
           s2 == visitDeps(mods, deps, deps[name], 1, s1)
       IN IF s2.err # NONE THEN s2
          ELSE [s2 EXCEPT !.visiting = @ \ {name}, !.order = Append(@, name)]

\* visit that returns, instead of throwing, on a name it is visiting
visitIgnoreCycle(mods, deps, name, s) ==
  IF s.err # NONE THEN s
  ELSE IF name \in s.visited \/ name \in s.visiting THEN s
  ELSE IF ~Has(mods, name) THEN s
  ELSE LET s1 == [s EXCEPT !.visiting = @ \cup {name}]
           s2 == visitDeps(mods, deps, deps[name], 1, s1)
       IN [s2 EXCEPT !.visiting = @ \ {name},
                     !.visited = @ \cup {name},
                     !.order = Append(@, name)]

visit(mods, deps, name, s) ==
  IF s.err # NONE THEN s
  ELSE IF name \in s.visited THEN s
  ELSE IF name \in s.visiting
    THEN [s EXCEPT !.err = Err("CircularDependency", <<name>>)]
  ELSE IF ~Has(mods, name) THEN s
  ELSE LET s1 == [s EXCEPT !.visiting = @ \cup {name}]
           s2 == visitDeps(mods, deps, deps[name], 1, s1)
       IN IF s2.err # NONE THEN s2
          ELSE [s2 EXCEPT !.visiting = @ \ {name},
                          !.visited = @ \cup {name},
                          !.order = Append(@, name)]

\* visitDeps that walks the list from its last name to its first
RECURSIVE visitDepsBackwards(_, _, _, _, _)
visitDepsBackwards(mods, deps, list, i, s) ==
  IF i > Len(list) \/ s.err # NONE THEN s
  ELSE visitDepsBackwards(mods, deps, list, i + 1,
                          visit(mods, deps, list[Len(list) + 1 - i], s))


visitDeps(mods, deps, list, i, s) ==
  IF i > Len(list) \/ s.err # NONE THEN s
  ELSE visitDeps(mods, deps, list, i + 1, visit(mods, deps, list[i], s))

\* the modules in registration order, dependencies not looked at
resolveRegistrationOrder(mods, deps) ==
  [visited |-> Range(mods), visiting |-> {}, order |-> mods, err |-> NONE]

resolveDependencyOrder(mods, deps) ==
  visitDeps(mods, deps, mods, 1,
            [visited |-> {}, visiting |-> {}, order |-> <<>>, err |-> NONE])

\* -------------------------------------------------------- checkDependencies
checkDependencies(name) ==
  SelectSeq(dependencies[name], LAMBDA dep : ~Has(modules, dep))

\* ------------------------------------------ the synchronous part of a call
\* Each returns: out, the result (AWAIT when the call suspends on the module's
\* callback); st, the entry's state when the call suspends or returns; inv,
\* the callback it invoked.  cb says whether the module has the callback: the
\* optional field of the module object is read when the call runs.
Outcome(out, st, inv) == [out |-> out, st |-> st, inv |-> inv]

\* `!depEntry || depEntry.state === ModuleState.UNINITIALIZED`
NotReady(dep) == ~Has(modules, dep) \/ state[dep] = UNINITIALIZED

\* initialize without the early return on a state other than UNINITIALIZED
initializeAgain(name, cb) ==
  IF ~Has(modules, name) THEN Outcome(Err("NotFound", <<name>>), ABSENT, "none")
  ELSE IF Len(checkDependencies(name)) > 0
    THEN Outcome(Err("MissingDependencies", checkDependencies(name)), state[name], "none")
  ELSE IF cb THEN Outcome(AWAIT, INITIALIZING, "init")
  ELSE Outcome(OK, INITIALIZED, "none")

\* initialize without the check that the dependencies are registered
initializeNoMissingCheck(name, cb) ==
  IF ~Has(modules, name) THEN Outcome(Err("NotFound", <<name>>), ABSENT, "none")
  ELSE IF state[name] # UNINITIALIZED THEN Outcome(OK, state[name], "none")
  ELSE IF \E i \in 1..Len(dependencies[name]) : NotReady(dependencies[name][i])
    THEN LET i == CHOOSE j \in 1..Len(dependencies[name]) :
                    /\ NotReady(dependencies[name][j])
                    /\ \A k \in 1..(j - 1) : ~NotReady(dependencies[name][k])
         IN Outcome(Err("DependencyNotInitialized", <<dependencies[name][i]>>),
                    state[name], "none")
  ELSE IF cb THEN Outcome(AWAIT, INITIALIZING, "init")
  ELSE Outcome(OK, INITIALIZED, "none")

\* initialize without the check that the dependencies are initialized
initializeNoDepCheck(name, cb) ==
  IF ~Has(modules, name) THEN Outcome(Err("NotFound", <<name>>), ABSENT, "none")
  ELSE IF state[name] # UNINITIALIZED THEN Outcome(OK, state[name], "none")
  ELSE IF Len(checkDependencies(name)) > 0
    THEN Outcome(Err("MissingDependencies", checkDependencies(name)), state[name], "none")
  ELSE IF cb THEN Outcome(AWAIT, INITIALIZING, "init")
  ELSE Outcome(OK, INITIALIZED, "none")

initialize(name, cb) ==
  IF ~Has(modules, name) THEN Outcome(Err("NotFound", <<name>>), ABSENT, "none")
  ELSE IF state[name] # UNINITIALIZED THEN Outcome(OK, state[name], "none")
  ELSE IF Len(checkDependencies(name)) > 0
    THEN Outcome(Err("MissingDependencies", checkDependencies(name)), state[name], "none")
  ELSE IF \E i \in 1..Len(dependencies[name]) : NotReady(dependencies[name][i])
    THEN LET i == CHOOSE j \in 1..Len(dependencies[name]) :
                    /\ NotReady(dependencies[name][j])
                    /\ \A k \in 1..(j - 1) : ~NotReady(dependencies[name][k])
         IN Outcome(Err("DependencyNotInitialized", <<dependencies[name][i]>>),
                    state[name], "none")
  ELSE IF cb THEN Outcome(AWAIT, INITIALIZING, "init")
  ELSE Outcome(OK, INITIALIZED, "none")

\* start that accepts INITIALIZED only: no restart of a stopped module
startNoRestart(name, cb) ==
  IF ~Has(modules, name) THEN Outcome(Err("NotFound", <<name>>), ABSENT, "none")
  ELSE IF state[name] = RUNNING THEN Outcome(OK, state[name], "none")
  ELSE IF state[name] # INITIALIZED
    THEN Outcome(Err("MustBeInitialized", <<name>>), state[name], "none")
  ELSE IF cb THEN Outcome(AWAIT, STARTING, "start")
  ELSE Outcome(OK, RUNNING, "none")

\* start that rejects only a module never initialized: restart after an error
startFromError(name, cb) ==
  IF ~Has(modules, name) THEN Outcome(Err("NotFound", <<name>>), ABSENT, "none")
  ELSE IF state[name] = RUNNING THEN Outcome(OK, state[name], "none")
  ELSE IF state[name] \notin {INITIALIZED, STOPPED, ERROR}
    THEN Outcome(Err("MustBeInitialized", <<name>>), state[name], "none")
  ELSE IF cb THEN Outcome(AWAIT, STARTING, "start")
  ELSE Outcome(OK, RUNNING, "none")

start(name, cb) ==
  IF ~Has(modules, name) THEN Outcome(Err("NotFound", <<name>>), ABSENT, "none")
  ELSE IF state[name] = RUNNING THEN Outcome(OK, state[name], "none")
  ELSE IF state[name] # INITIALIZED /\ state[name] # STOPPED
    THEN Outcome(Err("MustBeInitialized", <<name>>), state[name], "none")
  ELSE IF cb THEN Outcome(AWAIT, STARTING, "start")
  ELSE Outcome(OK, RUNNING, "none")

\* stop that ignores UNINITIALIZED and STOPPED only: a second stop while the
\* first is awaiting runs the callback again
stopTwice(name, cb) ==
  IF ~Has(modules, name) THEN Outcome(Err("NotFound", <<name>>), ABSENT, "none")
  ELSE IF state[name] \in {UNINITIALIZED, STOPPED}
    THEN Outcome(OK, state[name], "none")
  ELSE IF cb THEN Outcome(AWAIT, STOPPING, "stop")
  ELSE Outcome(OK, STOPPED, "none")

\* stop without the check that the name has an entry
stopUnknown(name, cb) ==
  IF state[name] \in {UNINITIALIZED, STOPPED, STOPPING}
    THEN Outcome(OK, state[name], "none")
  ELSE IF cb THEN Outcome(AWAIT, STOPPING, "stop")
  ELSE Outcome(OK, STOPPED, "none")

\* stop that also ignores a module that is INITIALIZED: nothing was started
stopOnlyStarted(name, cb) ==
  IF ~Has(modules, name) THEN Outcome(Err("NotFound", <<name>>), ABSENT, "none")
  ELSE IF state[name] \in {UNINITIALIZED, INITIALIZED, STOPPED, STOPPING}
    THEN Outcome(OK, state[name], "none")
  ELSE IF cb THEN Outcome(AWAIT, STOPPING, "stop")
  ELSE Outcome(OK, STOPPED, "none")


\* stop that also ignores a module in ERROR
stopIgnoresError(name, cb) ==
  IF ~Has(modules, name) THEN Outcome(Err("NotFound", <<name>>), ABSENT, "none")
  ELSE IF state[name] \in {UNINITIALIZED, STOPPED, STOPPING, ERROR}
    THEN Outcome(OK, state[name], "none")
  ELSE IF cb THEN Outcome(AWAIT, STOPPING, "stop")
  ELSE Outcome(OK, STOPPED, "none")


stop(name, cb) ==
  IF ~Has(modules, name) THEN Outcome(Err("NotFound", <<name>>), ABSENT, "none")
  ELSE IF state[name] \in {UNINITIALIZED, STOPPED, STOPPING}
    THEN Outcome(OK, state[name], "none")
  ELSE IF cb THEN Outcome(AWAIT, STOPPING, "stop")
  ELSE Outcome(OK, STOPPED, "none")

KindOf(op) ==
  CASE op \in {"initialize", "initializeAll"} -> "init"
    [] op \in {"start", "startAll"} -> "start"
    [] op \in {"stop", "stopAll"} -> "stop"

IsBatch(op) == op \in {"initializeAll", "startAll", "stopAll"}

Sub(op, name, cb) ==
  CASE KindOf(op) = "init" -> initialize(name, cb)
    [] KindOf(op) = "start" -> start(name, cb)
    [] KindOf(op) = "stop" -> stop(name, cb)

\* the state a call writes when its callback resolves
Settled(op) ==
  CASE KindOf(op) = "init" -> INITIALIZED
    [] KindOf(op) = "start" -> RUNNING
    [] KindOf(op) = "stop" -> STOPPED

\* the writes of the synchronous part r of a call on `name`
Apply(name, r) ==
  /\ state' = IF Has(modules, name) THEN [state EXCEPT ![name] = r.st] ELSE state
  /\ initCalls' = IF r.inv = "init"
                    THEN [initCalls EXCEPT ![name] = Min(@ + 1, MaxCalls)]
                    ELSE initCalls
  /\ wasInitialized' = IF Has(modules, name) /\ r.st = INITIALIZED
                         THEN [wasInitialized EXCEPT ![name] = TRUE]
                         ELSE wasInitialized
  /\ UNCHANGED error

\* ------------------------------------------------- initialize, start, stop
Call(op, name, cb) ==
  LET r == Sub(op, name, cb) IN
  /\ HasFreeSlot
  /\ Apply(name, r)
  /\ IF r.out = AWAIT
       THEN /\ tasks' = Append(tasks,
                   Task(op, name, <<name>>, 1, "await", NONE,
                        op = "stop" /\ state[name] = INITIALIZED))
            /\ returned' = NoReturn
       ELSE /\ returned' = Returned(op, name, r.out)
            /\ UNCHANGED tasks
  /\ UNCHANGED <<modules, version, dependencies, startOrder>>

Initialize(name, cb) == Call("initialize", name, cb)
Start(name, cb) == Call("start", name, cb)
Stop(name, cb) == Call("stop", name, cb)

\* ------------------------------------------ initializeAll, startAll, stopAll
\* One iteration of `for (const name of order) await this.<op>(name)`: the
\* call on order[i] up to its first await, or the end of the loop.  rest is
\* the other calls in flight, T the batch call's record so far.
Loop(rest, T, i, cb) ==
  IF i > Len(T.order)
    THEN /\ tasks' = rest
         /\ returned' = Returned(T.op, "", OK)
         /\ UNCHANGED <<state, error, initCalls, wasInitialized>>
    ELSE LET r == Sub(T.op, T.order[i], cb) IN
         /\ Apply(T.order[i], r)
         /\ tasks' = Append(rest,
              [T EXCEPT !.idx = i,
                        !.pc = IF r.out = AWAIT THEN "await" ELSE "yield",
                        !.ret = IF r.out = AWAIT THEN NONE ELSE r.out])
         /\ returned' = NoReturn

\* initializeAll whose resolution fills `this.startOrder` as it goes: a cycle
\* leaves the names emitted before it was found in the cached order
InitializeAllPartialOrder(cb) ==
  LET res == resolveDependencyOrder(modules, dependencies) IN
  /\ HasFreeSlot
  /\ IF res.err # NONE
       THEN /\ returned' = Returned("initializeAll", "", res.err)
            /\ startOrder' = res.order
            /\ UNCHANGED <<tasks, state, error, initCalls, wasInitialized>>
       ELSE /\ startOrder' = res.order
            /\ Loop(tasks,
                    Task("initializeAll", "", res.order, 1, "yield", OK,
                         \A n \in Range(modules) : state[n] = UNINITIALIZED),
                    1, cb)
  /\ UNCHANGED <<modules, version, dependencies>>


InitializeAll(cb) ==
  LET res == resolveDependencyOrder(modules, dependencies) IN
  /\ HasFreeSlot
  /\ IF res.err # NONE
       THEN /\ returned' = Returned("initializeAll", "", res.err)
            /\ UNCHANGED <<startOrder, tasks, state, error, initCalls, wasInitialized>>
       ELSE /\ startOrder' = res.order
            /\ Loop(tasks,
                    Task("initializeAll", "", res.order, 1, "yield", OK,
                         \A n \in Range(modules) : state[n] = UNINITIALIZED),
                    1, cb)
  /\ UNCHANGED <<modules, version, dependencies>>

StartAll(cb) ==
  /\ HasFreeSlot
  /\ Loop(tasks,
          Task("startAll", "", startOrder, 1, "yield", OK,
               \A n \in Range(startOrder) : state[n] = INITIALIZED),
          1, cb)
  /\ UNCHANGED <<modules, version, dependencies, startOrder>>

\* stopAll that iterates the cached order without reversing it
StopAllForward(cb) ==
  /\ HasFreeSlot
  /\ Loop(tasks,
          Task("stopAll", "", startOrder, 1, "yield", OK,
               \A n \in Range(startOrder) : state[n] = RUNNING),
          1, cb)
  /\ UNCHANGED <<modules, version, dependencies, startOrder>>

StopAll(cb) ==
  /\ HasFreeSlot
  /\ Loop(tasks,
          Task("stopAll", "", Reverse(startOrder), 1, "yield", OK,
               \A n \in Range(startOrder) : state[n] = RUNNING),
          1, cb)
  /\ UNCHANGED <<modules, version, dependencies, startOrder>>

\* Settle whose catch block records the error and does not rethrow it
SettleSwallow(t, res) ==
  LET T == tasks[t]
      name == T.order[T.idx]
      out == IF res = "ok" THEN OK ELSE Err(res, <<>>) IN
  /\ T.pc = "await"
  /\ state' = [state EXCEPT ![name] = IF res = "ok" THEN Settled(T.op) ELSE ERROR]
  /\ error' = IF res = "ok" THEN error ELSE [error EXCEPT ![name] = out]
  /\ wasInitialized' = IF res = "ok" /\ KindOf(T.op) = "init"
                         THEN [wasInitialized EXCEPT ![name] = TRUE]
                         ELSE wasInitialized
  /\ IF IsBatch(T.op)
       THEN /\ tasks' = [tasks EXCEPT ![t].pc = "yield", ![t].ret = OK]
            /\ returned' = NoReturn
       ELSE /\ tasks' = RemoveAt(tasks, t)
            /\ returned' = Returned(T.op, T.name, OK)
  /\ UNCHANGED <<modules, version, dependencies, startOrder, initCalls>>

\* Settle without the catch block: a rejection propagates to the caller and
\* the module keeps the transitional state it was given before the await
SettleNoCatch(t, res) ==
  LET T == tasks[t]
      name == T.order[T.idx]
      out == IF res = "ok" THEN OK ELSE Err(res, <<>>) IN
  /\ T.pc = "await"
  /\ state' = IF res = "ok" THEN [state EXCEPT ![name] = Settled(T.op)] ELSE state
  /\ error' = error
  /\ wasInitialized' = IF res = "ok" /\ KindOf(T.op) = "init"
                         THEN [wasInitialized EXCEPT ![name] = TRUE]
                         ELSE wasInitialized
  /\ IF IsBatch(T.op)
       THEN /\ tasks' = [tasks EXCEPT ![t].pc = "yield", ![t].ret = out]
            /\ returned' = NoReturn
       ELSE /\ tasks' = RemoveAt(tasks, t)
            /\ returned' = Returned(T.op, T.name, out)
  /\ UNCHANGED <<modules, version, dependencies, startOrder, initCalls>>

\* The awaited callback of task t resolves (res = "ok") or rejects with res.
Settle(t, res) ==
  LET T == tasks[t]
      name == T.order[T.idx]
      out == IF res = "ok" THEN OK ELSE Err(res, <<>>) IN
  /\ T.pc = "await"
  /\ state' = [state EXCEPT ![name] = IF res = "ok" THEN Settled(T.op) ELSE ERROR]
  /\ error' = IF res = "ok" THEN error ELSE [error EXCEPT ![name] = out]
  /\ wasInitialized' = IF res = "ok" /\ KindOf(T.op) = "init"
                         THEN [wasInitialized EXCEPT ![name] = TRUE]
                         ELSE wasInitialized
  /\ IF IsBatch(T.op)
       THEN /\ tasks' = [tasks EXCEPT ![t].pc = "yield", ![t].ret = out]
            /\ returned' = NoReturn
       ELSE /\ tasks' = RemoveAt(tasks, t)
            /\ returned' = Returned(T.op, T.name, out)
  /\ UNCHANGED <<modules, version, dependencies, startOrder, initCalls>>

\* Resume that goes on with the loop whatever the awaited call threw
ResumeContinue(t, cb) ==
  LET T == tasks[t] IN
  /\ T.pc = "yield"
  /\ Loop(RemoveAt(tasks, t), T, T.idx + 1, cb)
  /\ UNCHANGED <<modules, version, dependencies, startOrder>>

\* Resume of a loop without `await`: the batch call goes on to the next module
\* while the callback of the current one is still pending
ResumeNoAwait(t, cb) ==
  LET T == tasks[t] IN
  /\ IF T.pc = "yield" /\ T.ret # OK
       THEN /\ tasks' = RemoveAt(tasks, t)
            /\ returned' = Returned(T.op, T.order[T.idx], T.ret)
            /\ UNCHANGED <<state, error, initCalls, wasInitialized>>
       ELSE Loop(RemoveAt(tasks, t), T, T.idx + 1, cb)
  /\ UNCHANGED <<modules, version, dependencies, startOrder>>

\* The batch call t resumes after the awaited call on order[idx] has settled.
Resume(t, cb) ==
  LET T == tasks[t] IN
  /\ T.pc = "yield"
  /\ IF T.ret # OK
       THEN /\ tasks' = RemoveAt(tasks, t)
            /\ returned' = Returned(T.op, T.order[T.idx], T.ret)
            /\ UNCHANGED <<state, error, initCalls, wasInitialized>>
       ELSE Loop(RemoveAt(tasks, t), T, T.idx + 1, cb)
  /\ UNCHANGED <<modules, version, dependencies, startOrder>>

\* --------------------------------------------------- get, getState, list
\* What a lookup returns: the value found, or undefined.
Value(x) == Err("value", <<x>>)
Undefined == Err("undefined", <<>>)

\* the module object held by the entry of a registered name
Module(name) ==
  [name |-> name, version |-> version[name], dependencies |-> dependencies[name]]

get(name) == IF Has(modules, name) THEN Value(Module(name)) ELSE Undefined

getState(name) == IF Has(modules, name) THEN Value(state[name]) ELSE Undefined

\* list that maps the cached order instead of the entries of `modules`
listStartOrder ==
  [i \in 1..Len(startOrder) |->
     [name |-> startOrder[i], version |-> version[startOrder[i]],
      state |-> state[startOrder[i]]]]

list ==
  [i \in 1..Len(modules) |->
     [name |-> modules[i], version |-> version[modules[i]], state |-> state[modules[i]]]]

Get(name) ==
  /\ returned' = Returned("get", name, get(name))
  /\ UNCHANGED <<modules, version, dependencies, state, error, startOrder, tasks,
                 initCalls, wasInitialized>>

GetState(name) ==
  /\ returned' = Returned("getState", name, getState(name))
  /\ UNCHANGED <<modules, version, dependencies, state, error, startOrder, tasks,
                 initCalls, wasInitialized>>

List ==
  /\ returned' = Returned("list", "", Err("value", list))
  /\ UNCHANGED <<modules, version, dependencies, state, error, startOrder, tasks,
                 initCalls, wasInitialized>>

Init ==
  /\ modules = <<>>
  /\ version = [n \in Names |-> ABSENT]
  /\ dependencies = [n \in Names |-> <<>>]
  /\ state = [n \in Names |-> ABSENT]
  /\ error = [n \in Names |-> NONE]
  /\ startOrder = <<>>
  /\ tasks = <<>>
  /\ returned = NoReturn
  /\ initCalls = [n \in Names |-> 0]
  /\ wasInitialized = [n \in Names |-> FALSE]

Results == {"ok"} \cup CbErrors

\* One caller that awaits each call before it makes the next.
Next ==
  \/ \E n \in Callers, v \in OneVersion, d \in SeqsUpTo(Names, MaxDeps) :
        Quiescent /\ Register(n, v, d)
  \/ \E n \in Callers, cb \in BOOLEAN : Quiescent /\ Initialize(n, cb)
  \/ \E n \in Callers, cb \in BOOLEAN : Quiescent /\ Start(n, cb)
  \/ \E n \in Callers, cb \in BOOLEAN : Quiescent /\ Stop(n, cb)
  \/ \E cb \in BOOLEAN : Quiescent /\ InitializeAll(cb)
  \/ \E cb \in BOOLEAN : Quiescent /\ StartAll(cb)
  \/ \E cb \in BOOLEAN : Quiescent /\ StopAll(cb)
  \/ \E t \in 1..Len(tasks), res \in Results : Settle(t, res)
  \/ \E t \in 1..Len(tasks), cb \in BOOLEAN : Resume(t, cb)

Spec == Init /\ [][Next]_vars

\* Spec in which every invoked callback eventually resolves or rejects, and
\* the continuation of an `await` whose promise has settled eventually runs.
SpecLive ==
  /\ Spec
  /\ WF_vars(\E t \in 1..Len(tasks), res \in Results : Settle(t, res))
  /\ WF_vars(\E t \in 1..Len(tasks), cb \in BOOLEAN : Resume(t, cb))

\* Callers that make calls while earlier calls are still awaiting.
NextConc ==
  \/ \E n \in ConcCallers, v \in OneVersion, d \in SeqsUpTo(Names, MaxDeps) :
        Register(n, v, d)
  \/ \E n \in ConcCallers, cb \in BOOLEAN : Initialize(n, cb)
  \/ \E n \in ConcCallers, cb \in BOOLEAN : Start(n, cb)
  \/ \E n \in ConcCallers, cb \in BOOLEAN : Stop(n, cb)
  \/ \E cb \in BOOLEAN : InitializeAll(cb)
  \/ \E cb \in BOOLEAN : StartAll(cb)
  \/ \E cb \in BOOLEAN : StopAll(cb)
  \/ \E t \in 1..Len(tasks), res \in Results : Settle(t, res)
  \/ \E t \in 1..Len(tasks), cb \in BOOLEAN : Resume(t, cb)

SpecConc == Init /\ [][NextConc]_vars

\* One caller as in Spec, on modules of any version whose callbacks throw
\* one error, that also looks the registry up, between its calls and while
\* a call is awaiting.
IntroResults == {"ok"} \cup {CHOOSE e \in CbErrors : TRUE}

NextIntro ==
  \/ \E n \in Callers, v \in Versions, d \in SeqsUpTo(Names, MaxDeps) :
        Quiescent /\ Register(n, v, d)
  \/ \E n \in Callers, cb \in BOOLEAN : Quiescent /\ Initialize(n, cb)
  \/ \E n \in Callers, cb \in BOOLEAN : Quiescent /\ Start(n, cb)
  \/ \E n \in Callers, cb \in BOOLEAN : Quiescent /\ Stop(n, cb)
  \/ \E cb \in BOOLEAN : Quiescent /\ InitializeAll(cb)
  \/ \E t \in 1..Len(tasks), res \in IntroResults : Settle(t, res)
  \/ \E t \in 1..Len(tasks), cb \in BOOLEAN : Resume(t, cb)
  \/ \E n \in Callers : Get(n)
  \/ \E n \in Callers : GetState(n)
  \/ List

SpecIntro == Init /\ [][NextIntro]_vars

\* A registry that holds any modules over Names, each with any dependency
\* list of at most ResDeps names, none initialized yet; initializeAll on it.
NoDupSeqs(S) == {s \in SeqsUpTo(S, Cardinality(S)) : \A i, j \in 1..Len(s) : s[i] = s[j] => i = j}

InitResolve ==
  /\ modules \in NoDupSeqs(Names)
  /\ \E v \in OneVersion :
       version = [n \in Names |-> IF Has(modules, n) THEN v ELSE ABSENT]
  /\ dependencies \in [Names -> SeqsUpTo(Names, ResDeps)]
  /\ \A n \in Names : ~Has(modules, n) => dependencies[n] = <<>>
  /\ state = [n \in Names |-> IF Has(modules, n) THEN UNINITIALIZED ELSE ABSENT]
  /\ error = [n \in Names |-> NONE]
  /\ startOrder = <<>>
  /\ tasks = <<>>
  /\ returned = NoReturn
  /\ initCalls = [n \in Names |-> 0]
  /\ wasInitialized = [n \in Names |-> FALSE]

NextResolve ==
  \/ \E cb \in BOOLEAN : Quiescent /\ InitializeAll(cb)
  \/ \E t \in 1..Len(tasks), res \in Results : Settle(t, res)
  \/ \E t \in 1..Len(tasks), cb \in BOOLEAN : Resume(t, cb)

SpecResolve == InitResolve /\ [][NextResolve]_vars

\* ====================================================================
\* Properties
\* ====================================================================
IndexOf(s, x) == IF x \in Range(s) THEN CHOOSE i \in 1..Len(s) : s[i] = x ELSE 0

\* the dependencies of n that are registered
RegisteredDeps(n) == Range(dependencies[n]) \cap Range(modules)

RECURSIVE Closure(_)
Closure(S) ==
  LET T == S \cup UNION {RegisteredDeps(n) : n \in S} IN
  IF T = S THEN S ELSE Closure(T)

\* n depends, directly or not, on itself
OnCycle(n) == Has(modules, n) /\ n \in Closure(RegisteredDeps(n))
Cyclic == \E n \in Range(modules) : OnCycle(n)

\* the module a call in flight is at
At(T) == T.order[T.idx]

\* an initializeAll has run resolveDependencyOrder on the registry
Resolved == tasks # <<>> \/ returned.op = "initializeAll"

\* C1: during an initializeAll made on a registry whose entries are all
\* UNINITIALIZED, the call on a module comes after the calls on all its
\* registered dependencies, and while the module's init is pending each of
\* them is INITIALIZED: its init has completed.
C1_InitAfterDependencies ==
  \A t \in 1..Len(tasks) :
    LET T == tasks[t] IN
    (T.op = "initializeAll" /\ T.pre) =>
      \A D \in RegisteredDeps(At(T)) :
        /\ IndexOf(T.order, D) > 0
        /\ IndexOf(T.order, D) < T.idx
        /\ T.pc = "await" => state[D] = INITIALIZED

\* the init of the third module of a chain of three is pending
C1_Witness ==
  \E t \in 1..Len(tasks) :
    /\ tasks[t].op = "initializeAll" /\ tasks[t].pre /\ tasks[t].pc = "await"
    /\ tasks[t].idx = 3
    /\ RegisteredDeps(At(tasks[t])) # {}
    /\ \A D \in RegisteredDeps(At(tasks[t])) : initCalls[D] = 1

\* C2: stopAll iterates the reverse of the cached order: the call on a module
\* comes after the calls on all modules of the cached order that depend on
\* it, and, made with every module RUNNING, while the module's stop is pending
\* each of them is STOPPED.
C2_StopReverseOrder ==
  \A t \in 1..Len(tasks) :
    LET T == tasks[t] IN
    T.op = "stopAll" =>
      /\ T.order = Reverse(startOrder)
      /\ \A C \in Range(startOrder) :
           (At(T) \in RegisteredDeps(C) /\ C # At(T)) =>
             /\ IndexOf(T.order, C) < T.idx
             /\ (T.pre /\ T.pc = "await") => state[C] = STOPPED

C2_Witness ==
  \E t \in 1..Len(tasks) :
    /\ tasks[t].op = "stopAll" /\ tasks[t].pre /\ tasks[t].pc = "await"
    /\ \E C \in Range(startOrder) : C # At(tasks[t]) /\ At(tasks[t]) \in RegisteredDeps(C)

\* C3: when no registered module depends on itself through registered
\* modules, the resolved order holds each registered name exactly once, and
\* every module after all its registered dependencies.
C3_TopologicalPermutation ==
  (Resolved /\ ~Cyclic) =>
    /\ returned.ret.type # "CircularDependency"
    /\ Len(startOrder) = Len(modules)
    /\ Range(startOrder) = Range(modules)
    /\ \A C \in Range(modules) : \A D \in RegisteredDeps(C) :
         IndexOf(startOrder, D) < IndexOf(startOrder, C)

\* three modules resolved, one with two registered dependencies and one with
\* a dependency that is not registered: the order differs from registration
C3_Witness ==
  /\ Resolved /\ ~Cyclic /\ Len(startOrder) = 3
  /\ startOrder # modules
  /\ \E C \in Range(modules) : Cardinality(RegisteredDeps(C)) = 2

\* C4: when a registered module depends on itself through registered
\* modules, initializeAll throws the circular-dependency error, and the
\* module the error names is such a module.
C4_CycleDetected ==
  (Resolved /\ Cyclic) =>
    /\ tasks = <<>>
    /\ returned = Returned("initializeAll", "", returned.ret)
    /\ returned.ret.type = "CircularDependency"
    /\ Len(returned.ret.names) = 1
    /\ OnCycle(returned.ret.names[1])

\* a cycle through three modules
C4_Witness ==
  /\ returned.ret.type = "CircularDependency"
  /\ Len(modules) = 3
  /\ \A n \in Range(modules) : OnCycle(n) /\ Cardinality(RegisteredDeps(n)) = 1
                                 /\ n \notin RegisteredDeps(n)

\* C5: when the callback of an initialize, start or stop call rejects, the
\* entry's state becomes ERROR, the error is recorded on the entry, and the
\* same error is thrown to the caller (for a call made by a batch call: to
\* the batch call, which awaits it).
C5_CallbackFailureRaised ==
  [][\A t \in 1..Len(tasks) : \A e \in CbErrors :
       Settle(t, e) =>
         /\ state'[At(tasks[t])] = ERROR
         /\ error'[At(tasks[t])] = Err(e, <<>>)
         /\ IF IsBatch(tasks[t].op)
              THEN /\ Len(tasks') = Len(tasks)
                   /\ tasks'[t].pc = "yield"
                   /\ tasks'[t].ret = Err(e, <<>>)
              ELSE /\ tasks' = RemoveAt(tasks, t)
                   /\ returned' = Returned(tasks[t].op, tasks[t].name, Err(e, <<>>))]_vars

\* a stop call has thrown the error of the stop callback
C5_Witness ==
  /\ returned.op = "stop"
  /\ returned.ret.type \in CbErrors
  /\ state[returned.name] = ERROR
  /\ error[returned.name] = returned.ret

\* C6: a batch call whose awaited call threw returns that error at once,
\* invoking no callback and changing no entry; a step of a batch call changes
\* the entry it is at and no other; and during an initializeAll made on a
\* registry whose entries are all UNINITIALIZED, the modules after the one it
\* is at are UNINITIALIZED, their init never invoked.
C6_BatchHaltsAtFirstFailure ==
  [][\A t \in 1..Len(tasks) :
       LET T == tasks[t] IN
       IsBatch(T.op) =>
         /\ (T.pc = "yield" /\ T.ret # OK) =>
              /\ tasks' = <<>>
              /\ returned' = Returned(T.op, At(T), T.ret)
              /\ state' = state /\ error' = error /\ initCalls' = initCalls
         /\ \A n \in Names :
              state'[n] # state[n] =>
                /\ Len(tasks') = 1
                /\ n = At(tasks'[1])
                /\ tasks'[1].idx \in {T.idx, T.idx + 1}
         /\ (T.op = "initializeAll" /\ T.pre) =>
              \A j \in (T.idx + 1)..Len(T.order) :
                state[T.order[j]] = UNINITIALIZED /\ initCalls[T.order[j]] = 0]_vars

\* initializeAll has thrown the error of the first module's init; the second
\* module is UNINITIALIZED
C6_Witness ==
  /\ Len(startOrder) = 2
  /\ returned.op = "initializeAll"
  /\ returned.name = startOrder[1]
  /\ returned.ret.type \in CbErrors
  /\ state[startOrder[1]] = ERROR
  /\ state[startOrder[2]] = UNINITIALIZED
  /\ initCalls[startOrder[2]] = 0

\* C7, as claimed: no step changes the state of an entry that is ERROR.
C7_ErrorAbsorbing ==
  [][\A n \in Names : state[n] = ERROR => state'[n] = ERROR]_vars

\* a stop call on n is made, or resumed by stopAll, in this step
StopStepOn(n) ==
  \/ tasks' = tasks /\ returned' = Returned("stop", n, OK)
  \/ \E t \in 1..Len(tasks') : KindOf(tasks'[t].op) = "stop" /\ At(tasks'[t]) = n

\* C7, amended: with calls made one at a time, the only steps that change the
\* state of an entry that is ERROR are stop calls on it (by stop or stopAll),
\* which set STOPPING, or STOPPED when the module has no stop callback.
C7_ErrorLeftOnlyByStop ==
  [][\A n \in Names :
       (state[n] = ERROR /\ state'[n] # ERROR) =>
         /\ StopStepOn(n)
         /\ state'[n] \in {STOPPING, STOPPED}]_vars

\* a module whose init failed has been stopped
C7_Witness ==
  \E n \in Names : state[n] = STOPPED /\ error[n] # NONE /\ ~wasInitialized[n]

\* C8: an entry is STARTING or RUNNING only if it has been INITIALIZED.
C8_StartOnlyAfterInitialized ==
  \A n \in Names : state[n] \in {STARTING, RUNNING} => wasInitialized[n]

\* C9: start on a registered module: RUNNING, returns without effect;
\* INITIALIZED or STOPPED, sets STARTING and invokes the start callback (or,
\* the module having none, sets RUNNING), and sets RUNNING when the callback
\* resolves; any other state, throws and changes nothing.
C9_StartByState ==
  [][/\ \A n \in Callers : \A cb \in BOOLEAN :
          (Start(n, cb) /\ Has(modules, n)) =>
            IF state[n] = RUNNING
              THEN /\ state' = state /\ tasks' = tasks
                   /\ returned' = Returned("start", n, OK)
            ELSE IF state[n] \in {INITIALIZED, STOPPED}
              THEN IF cb
                     THEN /\ state' = [state EXCEPT ![n] = STARTING]
                          /\ tasks' = Append(tasks,
                               Task("start", n, <<n>>, 1, "await", NONE, FALSE))
                     ELSE /\ state' = [state EXCEPT ![n] = RUNNING]
                          /\ tasks' = tasks
                          /\ returned' = Returned("start", n, OK)
            ELSE /\ state[n] \in {UNINITIALIZED, INITIALIZING, STARTING, STOPPING, ERROR}
                 /\ state' = state /\ tasks' = tasks
                 /\ returned' = Returned("start", n, Err("MustBeInitialized", <<n>>))
     /\ \A t \in 1..Len(tasks) :
          (tasks[t].op = "start" /\ Settle(t, "ok")) =>
            /\ state'[tasks[t].name] = RUNNING
            /\ returned' = Returned("start", tasks[t].name, OK)]_vars

\* a stopped module is being started again while start has thrown on it
C9_Witness ==
  /\ returned = Returned("start", "a", Err("MustBeInitialized", <<"a">>))
  /\ state["a"] = STARTING
  /\ error["a"] # NONE

\* C10: the init callback of a module is invoked at most once; an initialize
\* call on an entry that is not UNINITIALIZED returns without invoking it and
\* without changing a state; and no step sets an entry back to UNINITIALIZED.
C10_InitializeOnce ==
  [][/\ \A n \in Names : initCalls'[n] <= 1
     /\ \A n \in Names :
          state[n] \notin {ABSENT, UNINITIALIZED} => state'[n] # UNINITIALIZED
     /\ \A n \in Callers : \A cb \in BOOLEAN :
          (Initialize(n, cb) /\ Has(modules, n) /\ state[n] # UNINITIALIZED) =>
            /\ state' = state /\ tasks' = tasks /\ initCalls' = initCalls
            /\ returned' = Returned("initialize", n, OK)]_vars

\* a second initialize has returned while the init callback is pending
C10_Witness ==
  /\ returned = Returned("initialize", "a", OK)
  /\ state["a"] = INITIALIZING
  /\ initCalls["a"] = 1

\* C11: initialize(name) on an UNINITIALIZED module that declares a dependency
\* on a name that is not registered throws the missing-dependencies error,
\* which lists the unregistered names in declared order; init is not invoked
\* and the module stays UNINITIALIZED.
C11_MissingDependencyRejected ==
  [][\A n \in Callers : \A cb \in BOOLEAN :
       (/\ state[n] = UNINITIALIZED
        /\ \E i \in 1..Len(dependencies[n]) : dependencies[n][i] \notin Range(modules)
        /\ Initialize(n, cb))
       => /\ returned' = Returned("initialize", n,
                 Err("MissingDependencies",
                     SelectSeq(dependencies[n], LAMBDA d : d \notin Range(modules))))
          /\ tasks' = tasks
          /\ initCalls' = initCalls
          /\ state' = state]_vars

C11_Witness ==
  \E n \in Callers :
    /\ returned.op = "initialize" /\ returned.name = n
    /\ returned.ret.type = "MissingDependencies"
    /\ returned.ret.names # <<>>
    /\ state[n] = UNINITIALIZED
    /\ initCalls[n] = 0

\* C12: initialize(name) on an UNINITIALIZED module whose dependencies are all
\* registered, one of them still UNINITIALIZED, throws the error that a
\* dependency is not initialized, naming such a dependency; init is not
\* invoked and the module stays UNINITIALIZED.
C12_DependencyNotReadyRejected ==
  [][\A n \in Callers : \A cb \in BOOLEAN :
       (/\ state[n] = UNINITIALIZED
        /\ Range(dependencies[n]) \subseteq Range(modules)
        /\ \E d \in Range(dependencies[n]) : state[d] = UNINITIALIZED
        /\ Initialize(n, cb))
       => /\ returned'.op = "initialize" /\ returned'.name = n
          /\ returned'.ret.type = "DependencyNotInitialized"
          /\ Len(returned'.ret.names) = 1
          /\ returned'.ret.names[1] \in Range(dependencies[n])
          /\ state[returned'.ret.names[1]] = UNINITIALIZED
          /\ tasks' = tasks
          /\ initCalls' = initCalls
          /\ state' = state]_vars

C12_Witness ==
  \E n \in Callers :
    /\ returned.op = "initialize" /\ returned.name = n
    /\ returned.ret.type = "DependencyNotInitialized"
    /\ returned.ret.names[1] # n
    /\ Range(dependencies[n]) \subseteq Range(modules)
    /\ state[n] = UNINITIALIZED
    /\ initCalls[n] = 0

\* C13: stop(name) on a module that is UNINITIALIZED, STOPPED or STOPPING is a
\* no-op: it returns without error, invokes no callback and changes no state,
\* also when it is called while an earlier stop is awaiting the callback.
C13_StopNoOp ==
  [][\A n \in ConcCallers : \A cb \in BOOLEAN :
       (state[n] \in {UNINITIALIZED, STOPPED, STOPPING} /\ Stop(n, cb))
       => /\ returned' = Returned("stop", n, OK)
          /\ tasks' = tasks
          /\ state' = state
          /\ error' = error]_vars

C13_Witness ==
  \E n \in ConcCallers :
    /\ returned = Returned("stop", n, OK)
    /\ state[n] = STOPPING
    /\ \E t \in 1..Len(tasks) :
         tasks[t].op = "stop" /\ tasks[t].name = n /\ tasks[t].pc = "await"

\* C14: register of a module whose name is already registered throws the
\* already-registered error and leaves the registry as it was: the entry keeps
\* its module (version and dependencies), its state and its error, whatever
\* state it has reached, and no entry is added.
C14_DuplicateRejected ==
  [][\A n \in Callers :
       (returned'.op = "register" /\ returned'.name = n /\ Has(modules, n))
       => /\ returned' = Returned("register", n, Err("AlreadyRegistered", <<n>>))
          /\ modules' = modules
          /\ get(n)' = get(n)
          /\ list' = list
          /\ error' = error
          /\ startOrder' = startOrder]_vars

C14_Witness ==
  \E n \in Callers :
    /\ returned = Returned("register", n, Err("AlreadyRegistered", <<n>>))
    /\ state[n] = RUNNING
    /\ version[n] = "2.0.0"
    /\ dependencies[n] # <<>>

\* C15: once an initializeAll has computed the cached order, it is in every
\* later state a topological order of the registered modules: every
\* registered module and each of its registered dependencies are in it, the
\* dependency first.
C15_CachedOrderCoversRegistered ==
  startOrder # <<>> =>
    \A C \in Range(modules) : \A D \in RegisteredDeps(C) :
      /\ IndexOf(startOrder, C) > 0
      /\ IndexOf(startOrder, D) > 0
      /\ IndexOf(startOrder, D) < IndexOf(startOrder, C)

\* C16: startAll calls start, and stopAll calls stop, on every module that is
\* registered when it is called, also on a module registered after the last
\* initializeAll.  With one caller and a cached order computed, a startAll
\* that returns without error has then left no registered module INITIALIZED
\* or STOPPED (start makes these RUNNING), and a stopAll that returns without
\* error has left every registered module STOPPED, or UNINITIALIZED if it was
\* never initialized.
C16_BatchDrivesEveryRegistered ==
  startOrder # <<>> =>
    /\ returned = Returned("startAll", "", OK)
         => \A n \in Range(modules) : state[n] \notin {INITIALIZED, STOPPED}
    /\ returned = Returned("stopAll", "", OK)
         => \A n \in Range(modules) : state[n] \in {STOPPED, UNINITIALIZED}

\* the registry of the end-to-end scenario: a without dependencies, then b
\* that depends on a
Fresh2 ==
  /\ modules = <<"a", "b">>
  /\ dependencies["a"] = <<>>
  /\ dependencies["b"] = <<"a">>

BothIn(st) == state["a"] = st /\ state["b"] = st

\* C17: on the registry of a (no dependencies) and b (depends on a),
\* registered in that order: an initializeAll made with both UNINITIALIZED
\* that returns without error leaves both INITIALIZED and the cached order
\* <<a, b>>; a startAll then made leaves both RUNNING; a stopAll then made
\* stops b before a, leaves both STOPPED, and list then returns a and b in
\* that order with state STOPPED; each of these calls throws only an error a
\* callback threw.  On one module, initialize, start and stop each invoke
\* their callback once, and the module is INITIALIZED, then RUNNING, then
\* STOPPED when the callback resolves.
C17_EndToEnd ==
  [][/\ (Len(tasks) = 1 /\ IsBatch(tasks[1].op) /\ tasks[1].pre /\ Fresh2)
        => /\ (tasks'= <<>> /\ returned'.ret # OK) => returned'.ret.type \in CbErrors
           /\ (tasks[1].op = "initializeAll" /\ tasks' = <<>> /\ returned'.ret = OK)
                => /\ returned' = Returned("initializeAll", "", OK)
                   /\ BothIn(INITIALIZED)'
                   /\ startOrder' = <<"a", "b">>
           /\ (tasks[1].op = "startAll" /\ startOrder = <<"a", "b">>
                 /\ tasks' = <<>> /\ returned'.ret = OK)
                => /\ returned' = Returned("startAll", "", OK)
                   /\ BothIn(RUNNING)'
           /\ (tasks[1].op = "stopAll" /\ startOrder = <<"a", "b">>)
                => /\ tasks[1].order = <<"b", "a">>
                   /\ state["a"] # RUNNING => state["b"] = STOPPED
                   /\ (tasks' = <<>> /\ returned'.ret = OK)
                        => /\ returned' = Returned("stopAll", "", OK)
                           /\ BothIn(STOPPED)'
                           /\ list' = <<[name |-> "a", version |-> version["a"],
                                          state |-> STOPPED],
                                         [name |-> "b", version |-> version["b"],
                                          state |-> STOPPED]>>
     /\ \A n \in Callers :
          /\ (state[n] = UNINITIALIZED /\ dependencies[n] = <<>> /\ Initialize(n, TRUE))
               => /\ tasks' = <<Task("initialize", n, <<n>>, 1, "await", NONE, FALSE)>>
                  /\ state'[n] = INITIALIZING
                  /\ initCalls'[n] = Min(initCalls[n] + 1, MaxCalls)
          /\ (state[n] = INITIALIZED /\ Start(n, TRUE))
               => /\ tasks' = <<Task("start", n, <<n>>, 1, "await", NONE, FALSE)>>
                  /\ state'[n] = STARTING
          /\ (state[n] = RUNNING /\ Stop(n, TRUE))
               => /\ tasks' = <<Task("stop", n, <<n>>, 1, "await", NONE, FALSE)>>
                  /\ state'[n] = STOPPING
          /\ (Len(tasks) = 1 /\ ~IsBatch(tasks[1].op) /\ tasks[1].name = n
                /\ Settle(1, "ok"))
               => /\ tasks' = <<>>
                  /\ returned' = Returned(tasks[1].op, n, OK)
                  /\ state'[n] = CASE tasks[1].op = "initialize" -> INITIALIZED
                                    [] tasks[1].op = "start" -> RUNNING
                                    [] tasks[1].op = "stop" -> STOPPED]_vars

C17_Witness ==
  /\ Fresh2
  /\ startOrder = <<"a", "b">>
  /\ Len(tasks) = 1
  /\ tasks[1].op = "stopAll" /\ tasks[1].pre
  /\ tasks[1].idx = 2 /\ tasks[1].pc = "yield" /\ tasks[1].ret = OK
  /\ BothIn(STOPPED)
  /\ initCalls["a"] = 1 /\ initCalls["b"] = 1

\* C18: list returns one record {name, version, state} for each registered
\* module, in the order of registration, with the state the entry has when
\* list is called, also while a call on the module is awaiting; list, get and
\* getState change no entry's state or error, not the registered names, the
\* modules held, the cached order or the calls in flight.
C18_ListSnapshotLookupsPure ==
  [][/\ returned'.op = "list"
        => /\ returned'.ret.type = "value"
           /\ Len(returned'.ret.names) = Len(modules)
           /\ \A i \in 1..Len(modules) :
                /\ returned'.ret.names[i].name = modules[i]
                /\ returned'.ret.names[i].version = version[modules[i]]
                /\ returned'.ret.names[i].state = state[modules[i]]
     /\ returned'.op \in {"list", "get", "getState"}
        => UNCHANGED <<modules, version, dependencies, state, error, startOrder, tasks,
                       initCalls>>]_vars

C18_Witness ==
  /\ returned.op = "list"
  /\ modules = <<"a", "b">>
  /\ startOrder = <<"b", "a">>
  /\ version["a"] # version["b"]
  /\ state["b"] = INITIALIZING
  /\ returned.ret.names[2].state = INITIALIZING

\* C19: register of a module whose name is not registered returns without
\* error and adds one entry, last in the order of registration, in state
\* UNINITIALIZED: get then returns that module and getState UNINITIALIZED.
\* It invokes no callback and leaves the other entries, their states and the
\* cached order as they were.
C19_RegisterNew ==
  [][\A n \in Callers :
       (returned'.op = "register" /\ returned'.name = n /\ ~Has(modules, n))
       => /\ returned' = Returned("register", n, OK)
          /\ modules' = Append(modules, n)
          /\ getState(n)' = Value(UNINITIALIZED)
          /\ \A v \in Versions : \A d \in SeqsUpTo(Names, MaxDeps) :
               Register(n, v, d)
                 => get(n)' = Value([name |-> n, version |-> v, dependencies |-> d])
          /\ \A m \in Names \ {n} :
               /\ state'[m] = state[m]
               /\ error'[m] = error[m]
               /\ get(m)' = get(m)
          /\ startOrder' = startOrder
          /\ tasks' = tasks
          /\ initCalls' = initCalls]_vars

C19_Witness ==
  /\ returned = Returned("register", "b", OK)
  /\ modules = <<"a", "b">>
  /\ state["a"] = RUNNING
  /\ startOrder = <<"a">>
  /\ get("b") = Value([name |-> "b", version |-> "2.0.0", dependencies |-> <<"a">>])
  /\ getState("b") = Value(UNINITIALIZED)

\* C20: on a name that is not registered, get and getState return undefined,
\* and initialize, start and stop each throw the not-found error; none of
\* them invokes a callback, adds an entry or changes an entry's state.
C20_UnknownName ==
  [][\A n \in Callers :
       ~Has(modules, n) =>
         /\ Get(n) => returned' = Returned("get", n, Undefined)
         /\ GetState(n) => returned' = Returned("getState", n, Undefined)
         /\ \A cb \in BOOLEAN :
              /\ Initialize(n, cb)
                   => returned' = Returned("initialize", n, Err("NotFound", <<n>>))
              /\ Start(n, cb)
                   => returned' = Returned("start", n, Err("NotFound", <<n>>))
              /\ Stop(n, cb)
                   => returned' = Returned("stop", n, Err("NotFound", <<n>>))
              /\ (Get(n) \/ GetState(n) \/ Initialize(n, cb) \/ Start(n, cb) \/ Stop(n, cb))
                   => UNCHANGED <<modules, state, error, startOrder, tasks, initCalls>>]_vars

C20_Witness ==
  /\ modules = <<"a">>
  /\ state["a"] = RUNNING
  /\ get("b") = Undefined
  /\ getState("b") = Undefined
  /\ returned = Returned("stop", "b", Err("NotFound", <<"b">>))

\* C21: when initializeAll invokes the init of a module, every dependency of
\* the module has completed its initialization: none of them is
\* UNINITIALIZED, INITIALIZING or ERROR, whatever calls were made on the
\* registry before.
C21_InitAfterDependenciesSucceeded ==
  \A t \in 1..Len(tasks) :
    LET T == tasks[t] IN
    (T.op = "initializeAll" /\ T.pc = "await") =>
      \A D \in Range(dependencies[At(T)]) :
        state[D] \notin {UNINITIALIZED, INITIALIZING, ERROR}

\* the state a call sets before it awaits the module's callback
Transitional(op) ==
  CASE KindOf(op) = "init" -> INITIALIZING
    [] KindOf(op) = "start" -> STARTING
    [] KindOf(op) = "stop" -> STOPPING

\* C22: under interleaved calls, the state a call writes when its callback
\* completes (INITIALIZED, RUNNING, STOPPED, or ERROR) is written only while
\* the entry is still in the transitional state that call set: a completing
\* call never overwrites a state another call on the entry wrote since.
C22_CompletionWritesOwnTransition ==
  [][\A t \in 1..Len(tasks) :
       (tasks[t].pc = "await" /\ state[At(tasks[t])] # Transitional(tasks[t].op))
       => \A res \in Results : ~Settle(t, res)]_vars

\* the calls awaiting a callback of the given kind on module n
Awaiting(n, kind) ==
  {t \in 1..Len(tasks) :
     tasks[t].pc = "await" /\ At(tasks[t]) = n /\ KindOf(tasks[t].op) = kind}

AwaitingOn(n) == Awaiting(n, "init") \cup Awaiting(n, "start") \cup Awaiting(n, "stop")

\* C23 (as claimed): at most one callback of a module is in flight at any
\* time, under every interleaving of initialize, start and stop calls made
\* while earlier calls are awaiting; in particular no second start callback
\* while one is pending.
C23_OneCallbackInFlight ==
  \A n \in ConcCallers : Cardinality(AwaitingOn(n)) <= 1

\* C23 (amended): under every interleaving, a call invokes init only on an
\* UNINITIALIZED module with no init pending, start only on an INITIALIZED or
\* STOPPED module, and stop only on a module that is not UNINITIALIZED,
\* STOPPED or STOPPING: never in the transitional state of its own kind.
C23_InvokedOnlyFromAcceptedState ==
  [][\A n \in ConcCallers : \A k \in {"init", "start", "stop"} :
       Cardinality(Awaiting(n, k)') > Cardinality(Awaiting(n, k))
       => /\ k = "init" => (state[n] = UNINITIALIZED /\ Awaiting(n, "init") = {})
          /\ k = "start" => state[n] \in {INITIALIZED, STOPPED}
          /\ k = "stop" => state[n] \notin {UNINITIALIZED, STOPPED, STOPPING}]_vars

\* two start callbacks of one module are pending
C23_Witness ==
  \E n \in ConcCallers : Cardinality(Awaiting(n, "start")) = 2

\* C24: a batch call made by the only caller works through its order one
\* module at a time: it begins at the first name, moves on by one name, and
\* only once the call on the current name has returned without error; the
\* only module in a transitional state (a callback in flight) is the one the
\* batch call is at and awaiting; startAll iterates the cached order, and the
\* module a step of it sets STARTING is the one it is at.
C24_BatchSequential ==
  [][/\ (Len(tasks) = 1 /\ IsBatch(tasks[1].op))
        => /\ \A n \in Names :
                state[n] \in {INITIALIZING, STARTING, STOPPING}
                  => (n = At(tasks[1]) /\ tasks[1].pc = "await"
                      /\ state[n] = Transitional(tasks[1].op))
           /\ tasks[1].op = "startAll" => tasks[1].order = startOrder
           /\ (Len(tasks') = 1 /\ tasks'[1].idx # tasks[1].idx)
                => /\ tasks[1].pc = "yield" /\ tasks[1].ret = OK
                   /\ tasks'[1].idx = tasks[1].idx + 1
                   /\ tasks'[1].order = tasks[1].order
     /\ (tasks = <<>> /\ Len(tasks') = 1 /\ IsBatch(tasks'[1].op))
        => tasks'[1].idx = 1
     /\ (Len(tasks') = 1 /\ tasks'[1].op = "startAll")
        => \A n \in Names :
             (state'[n] = STARTING /\ state[n] # STARTING) => n = At(tasks'[1])]_vars

\* startAll awaits the start callback of the second module of a cached order
\* that is not the order of registration
C24_Witness ==
  /\ Len(tasks) = 1
  /\ tasks[1].op = "startAll" /\ tasks[1].pc = "await" /\ tasks[1].idx = 2
  /\ startOrder = <<"b", "a">>
  /\ modules = <<"a", "b">>
  /\ state["b"] = RUNNING /\ state["a"] = STARTING

\* C25: a stop called while an earlier stop of the module is awaiting the
\* stop callback (state STOPPING) returns at once without error, invokes no
\* second stop callback and changes nothing; the stop in flight then ends as
\* if the second call had not been made: STOPPED when the callback resolves,
\* ERROR with the error thrown to the first caller when it rejects.
C25_DoubleStop ==
  [][\A n \in ConcCallers :
       (state[n] = STOPPING /\ Cardinality(Awaiting(n, "stop")) = 1)
       => /\ \A cb \in BOOLEAN :
               Stop(n, cb)
                 => /\ returned' = Returned("stop", n, OK)
                    /\ tasks' = tasks
                    /\ state' = state
                    /\ error' = error
          /\ \A t \in Awaiting(n, "stop") : \A res \in Results :
               (~IsBatch(tasks[t].op) /\ Settle(t, res))
                 => /\ state'[n] = IF res = "ok" THEN STOPPED ELSE ERROR
                    /\ tasks' = RemoveAt(tasks, t)
                    /\ returned' = Returned("stop", n,
                                            IF res = "ok" THEN OK ELSE Err(res, <<>>))
                    /\ Awaiting(n, "stop")' = {}]_vars

\* the second stop has returned while the only stop callback is pending
C25_Witness ==
  \E n \in ConcCallers :
    /\ returned = Returned("stop", n, OK)
    /\ state[n] = STOPPING
    /\ tasks = <<Task("stop", n, <<n>>, 1, "await", NONE, FALSE)>>
    /\ wasInitialized[n]
    /\ error[n] = NONE

\* C26 (as claimed): the stop callback is invoked only on a module whose
\* start has been attempted; no step invokes it on a module that is
\* INITIALIZED, the state of a module initialized and not yet started.
C26_StopCallbackOnlyAfterStart ==
  [][\A n \in Callers :
       state[n] = INITIALIZED
       => Cardinality(Awaiting(n, "stop")') <= Cardinality(Awaiting(n, "stop"))]_vars

\* C26 (amended): the stop callback is invoked only on a module that has left
\* UNINITIALIZED and is not STOPPED or STOPPING; stop on an UNINITIALIZED
\* module is a no-op, and stop on an INITIALIZED module sets STOPPING and
\* invokes the stop callback, or sets STOPPED at once when there is none.
C26_StopCallbackAfterInit ==
  [][\A n \in Callers :
       /\ Cardinality(Awaiting(n, "stop")') > Cardinality(Awaiting(n, "stop"))
            => state[n] \notin {UNINITIALIZED, STOPPED, STOPPING}
       /\ \A cb \in BOOLEAN :
            /\ (state[n] = UNINITIALIZED /\ Stop(n, cb))
                 => /\ returned' = Returned("stop", n, OK)
                    /\ UNCHANGED <<state, tasks>>
            /\ (state[n] = INITIALIZED /\ Stop(n, cb))
                 => IF cb
                      THEN /\ state'[n] = STOPPING
                           /\ Awaiting(n, "stop")' = {1}
                      ELSE /\ state'[n] = STOPPED
                           /\ returned' = Returned("stop", n, OK)
                           /\ tasks' = tasks]_vars

\* the stop callback of a module that was INITIALIZED is pending
C26_Witness ==
  \E n \in Callers :
    /\ tasks = <<Task("stop", n, <<n>>, 1, "await", NONE, TRUE)>>
    /\ state[n] = STOPPING
    /\ wasInitialized[n]

\* The depth-first post-order of an acyclic registry, as a function: Emit is
\* the names emitted for n when those of `done` have been emitted, the
\* registered dependencies of n in declared order, then n; EmitList does so
\* for each name of a list in turn.
RECURSIVE Emit(_, _)
RECURSIVE EmitList(_, _, _)
Emit(n, done) ==
  IF n \in done \/ ~Has(modules, n) THEN <<>>
  ELSE EmitList(dependencies[n], 1, done) \o <<n>>

EmitList(names, i, done) ==
  IF i > Len(names) THEN <<>>
  ELSE LET e == Emit(names[i], done) IN
       e \o EmitList(names, i + 1, done \cup Range(e))

PostOrder == EmitList(modules, 1, {})

\* C27: the order initializeAll resolves on an acyclic registry is the
\* depth-first post-order with the modules in registration order as roots and
\* each module's dependencies visited in declared order; a later resolution
\* of the same registry gives the same order, whatever the states of the
\* entries then are.
C27_ResolutionDeterministic ==
  [][(tasks = <<>> /\ ~Cyclic /\ \E cb \in BOOLEAN : InitializeAll(cb))
       => /\ startOrder' = PostOrder
          /\ returned.op = "initializeAll" => startOrder' = startOrder]_vars

\* a second initializeAll, made with some entries INITIALIZED and another
\* ERROR, has resolved the order of three modules again
C27_Witness ==
  /\ Len(tasks) = 1
  /\ tasks[1].op = "initializeAll" /\ ~tasks[1].pre
  /\ Len(startOrder) = 3
  /\ startOrder = PostOrder
  /\ startOrder # modules
  /\ startOrder # Reverse(modules)
  /\ \E n \in Names : state[n] = ERROR
  /\ \E n \in Names : state[n] = INITIALIZED

\* C28: an initializeAll on a registry with a dependency cycle throws the
\* circular-dependency error and leaves the registry as it was: no callback
\* is invoked, no entry's state or error changes, and the cached order keeps
\* the value it had.
C28_CycleLeavesRegistryUnchanged ==
  [][(tasks = <<>> /\ Cyclic /\ \E cb \in BOOLEAN : InitializeAll(cb))
       => /\ returned'.op = "initializeAll"
          /\ returned'.ret.type = "CircularDependency"
          /\ UNCHANGED <<modules, version, dependencies, state, error, startOrder,
                         tasks, initCalls>>]_vars

\* initializeAll has failed on a cycle that a registration made after an
\* earlier initializeAll closed; the order cached then is still there
C28_Witness ==
  /\ returned.op = "initializeAll"
  /\ returned.ret.type = "CircularDependency"
  /\ Len(modules) = 2
  /\ Len(startOrder) = 1
  /\ \E n \in Range(modules) : state[n] # UNINITIALIZED

\* The start-up failed at the k-th module X of the cached order: init of X
\* threw and X was never INITIALIZED, no other module has thrown, those
\* before X have been INITIALIZED and those after X have not been touched.
FailedIn(st, er, wi, ic, order, k) ==
  /\ k \in 1..Len(order)
  /\ er[order[k]] # NONE
  /\ ~wi[order[k]]
  /\ \A j \in 1..Len(order) :
       /\ j # k => er[order[j]] = NONE
       /\ j < k => wi[order[j]]
       /\ j > k => (st[order[j]] = UNINITIALIZED /\ ic[order[j]] = 0)

FailedAt(k) == FailedIn(state, error, wasInitialized, initCalls, startOrder, k)

\* stopAll has gone through the names of its order before position i
StoppedBefore(st, order, i, k) ==
  \A p \in 1..(i - 1) :
    st[order[p]] = IF IndexOf(startOrder, order[p]) > k THEN UNINITIALIZED
                   ELSE STOPPED

\* C29: an initializeAll that fails because the init of X threw has cached
\* the resolved order, with X in ERROR and, on a fresh registry, the modules
\* before X INITIALIZED and those after X UNINITIALIZED.  A stopAll made then,
\* whose stop callbacks resolve, iterates the reverse of that order: it leaves
\* the modules after X UNINITIALIZED without invoking a callback, and invokes
\* the stop callback of X and of each module before X, leaving them STOPPED.
C29_CleanupAfterFailedStartup ==
  [][/\ (Len(tasks) = 1 /\ tasks[1].op = "initializeAll" /\ tasks' = <<>>
          /\ returned'.ret.type \in CbErrors)
        => /\ startOrder' = tasks[1].order
           /\ returned'.name = At(tasks[1])
           /\ state'[At(tasks[1])] = ERROR
           /\ tasks[1].pre =>
                /\ FailedIn(state', error', wasInitialized', initCalls',
                            startOrder', tasks[1].idx)
                /\ \A j \in 1..(tasks[1].idx - 1) :
                     state'[tasks[1].order[j]] = INITIALIZED
     /\ \A k \in 1..Len(startOrder) :
          (Len(tasks') = 1 /\ tasks'[1].op = "stopAll" /\ FailedAt(k))
          => LET T == tasks'[1]
                 n == At(T) IN
             /\ T.order = Reverse(startOrder)
             /\ StoppedBefore(state', T.order, T.idx, k)
             /\ (tasks = <<>> \/ tasks[1].idx # T.idx)
                  => IF state[n] = UNINITIALIZED
                       THEN T.pc = "yield" /\ T.ret = OK /\ state'[n] = UNINITIALIZED
                       ELSE IF state[n] \in {INITIALIZED, ERROR, RUNNING}
                         THEN \/ T.pc = "await" /\ state'[n] = STOPPING
                              \/ T.pc = "yield" /\ T.ret = OK /\ state'[n] = STOPPED
                       ELSE state[n] = STOPPED /\ state'[n] = STOPPED
     /\ \A k \in 1..Len(startOrder) :
          (Len(tasks) = 1 /\ tasks[1].op = "stopAll" /\ FailedAt(k)
             /\ tasks' = <<>> /\ returned'.ret = OK)
          => StoppedBefore(state', tasks[1].order, Len(startOrder) + 1, k)]_vars

\* stopAll, made after the start-up failed at the second module, has stopped
\* both modules
C29_Witness ==
  /\ Len(tasks) = 1
  /\ tasks[1].op = "stopAll" /\ tasks[1].idx = 2
  /\ tasks[1].pc = "yield" /\ tasks[1].ret = OK
  /\ Len(startOrder) = 2
  /\ FailedAt(2)
  /\ \A n \in Range(startOrder) : state[n] = STOPPED /\ initCalls[n] = 1

\* no registered module is INITIALIZING, STARTING or STOPPING
NoneTransitional ==
  \A n \in Range(modules) : state[n] \notin {INITIALIZING, STARTING, STOPPING}

\* A rejected callback is not retried, and between calls every step is a call.
NoRetryNoSpontaneousStep ==
  /\ (Len(tasks) = 1 /\ tasks[1].pc = "yield" /\ tasks[1].ret # OK)
     => /\ tasks' = <<>>
        /\ returned' = Returned(tasks[1].op, At(tasks[1]), tasks[1].ret)
        /\ UNCHANGED <<state, error, initCalls, wasInitialized>>
  /\ (Len(tasks) = 1 /\ tasks[1].pc = "await")
     => /\ initCalls' = initCalls
        /\ IF IsBatch(tasks[1].op)
             THEN Len(tasks') = 1 /\ tasks'[1].pc = "yield"
             ELSE tasks' = <<>>
  /\ (tasks = <<>>)
     => \/ tasks' # <<>>
        \/ returned'.op \in {"register", "initialize", "start", "stop",
                             "initializeAll", "startAll", "stopAll"}

\* C30: when every invoked callback eventually resolves or rejects, every
\* initialize, start, stop, initializeAll, startAll and stopAll call
\* eventually returns; once all calls have returned no module is in a
\* transitional state; a rejected callback is not retried (the call returns
\* that error without invoking another callback); and between calls the
\* registry changes only by a step that is itself a call.
C30_Termination ==
  /\ (tasks # <<>>) ~> (tasks = <<>> /\ returned.op # "none")
  /\ [](tasks = <<>> => NoneTransitional)
  /\ [][NoRetryNoSpontaneousStep]_vars

\* a batch call has returned the error its callback rejected with, leaving
\* that module in ERROR and none in a transitional state
C30_Witness ==
  /\ tasks = <<>>
  /\ returned.op \in {"initializeAll", "startAll", "stopAll"}
  /\ returned.ret.type \in CbErrors
  /\ state[returned.name] = ERROR
  /\ NoneTransitional

====
